---------------------------- MODULE Spec2Model ----------------------------
(***************************************************************************)
(* The event-to-action pipeline of the watcher crate: one watcher thread   *)
(* per Ruleset (Watch::watch_one), the zero-capacity Dispatch Queue, and   *)
(* the single consumer thread running Watch::handle_move_task.             *)
(*                                                                         *)
(* A path is a sequence of components; a component is the sequence of its  *)
(* dot-separated parts, so "a.zip" is <<"a", "zip">> and extension(),      *)
(* file_stem() and set_extension() are computed on the parts as            *)
(* std::path computes them on the text.  The build is the Windows one      *)
(* (cfg!(target_os = "windows")), the only one on which Ruleset::add       *)
(* accepts a Task with a destination.                                      *)
(***************************************************************************)
EXTENDS Integers, Sequences, FiniteSets, TLC

\* ------------------------------------------------------------------ bounds
\* Number of things the environment does to the watched roots: a creation,
\* a write, an error batch of an event source.
MaxEvents == 2
\* Last wall-clock second the clock reaches (it starts at 1).
MaxClock == 2
\* Calls of Watch::watch and of Ruleset::add in one configuration.
MaxWatch == 2
MaxAdd == 2

\* ------------------------------------------------------------------ paths
None == "None"

W1 == << <<"w1">> >>
W2 == << <<"w2">> >>
Z == << <<"z">> >>
DUMP == << <<"dump">> >>

file_name(p) == p[Len(p)]

pop(p) == SubSeq(p, 1, Len(p) - 1)

join(p, c) == Append(p, c)

\* Option<&OsStr> as a sequence of length 0 or 1.
extension(p) ==
    LET c == file_name(p)
    IN  IF Len(c) > 1 THEN << c[Len(c)] >> ELSE << >>

file_stem(p) ==
    LET c == file_name(p)
    IN  IF Len(c) > 1 THEN SubSeq(c, 1, Len(c) - 1) ELSE c

\* set_extension(e) where the text of e is the parts of e joined by dots.
set_extension(p, e) == join(pop(p), file_stem(p) \o e)

\* u64::to_string, on the seconds the clock can show.
to_string(n) == << "0", "1", "2", "3", "4", "5", "6", "7", "8", "9" >>[n + 1]

IsPrefix(p, q) == Len(p) <= Len(q) /\ SubSeq(q, 1, Len(p)) = p


\* ------------------------------------------------------------- filesystem
\* fs maps every existing path to its entry: kind is "file" or "dir", id
\* names the content (who made it, under which name, as which of the things
\* made there), at is the second the executor stamped on its name (0: none)
\* and primary the destination of the Move that was given that name.
\* made[p] counts what the environment has created at path p so far.
VARIABLES fs, now, nextId, made

NoId == << 0, << >>, 0 >>

Dir == [kind |-> "dir", id |-> NoId, at |-> 0, primary |-> << >>]

exists(f, p) == p \in DOMAIN f

is_dir(f, p) == exists(f, p) /\ f[p].kind = "dir"

is_file(f, p) == exists(f, p) /\ f[p].kind = "file"

\* fs::create_dir: one level only; the error of a failed call is dropped.
create_dir(f, p) ==
    IF Len(p) > 0 /\ ~exists(f, p) /\ (Len(p) = 1 \/ is_dir(f, pop(p)))
    THEN [q \in DOMAIN f \cup {p} |-> IF q = p THEN Dir ELSE f[q]]
    ELSE f

\* fs::rename on Windows (MoveFileExW, MOVEFILE_REPLACE_EXISTING): the source
\* must exist, the target's parent must be a directory, an existing target
\* is replaced only when both are files.
rename_ok(f, src, dest) ==
    /\ exists(f, src)
    /\ Len(dest) > 1 => is_dir(f, pop(dest))
    /\ ~IsPrefix(src, dest)
    /\ exists(f, dest) => is_file(f, dest) /\ is_file(f, src)

Moved(src, dest, q) == dest \o SubSeq(q, Len(src) + 1, Len(q))

\* at: the second read by the executor when it stamped the name, else 0;
\* primary: the destination of the Move when the name was stamped.
rename(f, src, dest, at, primary) ==
    LET stay == {q \in DOMAIN f : ~IsPrefix(src, q) /\ q # dest}
        gone == {q \in DOMAIN f : IsPrefix(src, q)}
        back == [q \in {Moved(src, dest, g) : g \in gone} |->
                    CHOOSE g \in gone : Moved(src, dest, g) = q]
    IN  [q \in stay \cup DOMAIN back |->
            IF q \in DOMAIN back
            THEN IF q = dest
                 THEN [f[src] EXCEPT !.at = at, !.primary = primary]
                 ELSE f[back[q]]
            ELSE f[q]]

timestamp(t) == to_string(t)

\* Watch::handle_move_task on Move{src, dest}: the filesystem afterwards,
\* the final destination, the outcome ("ok", "err", or "panic" when
\* dest.extension().unwrap() meets a name without extension) and the path
\* the report names (QueueTask::Ok(dest), QueueTask::Err(src ...)).
DumpFolder == DUMP

Redirect(f, src, dest) ==
    IF exists(f, dest) THEN join(DumpFolder, file_name(src)) ELSE dest

NeedsStamp(f, src, dest) == exists(f, Redirect(f, src, dest))

Stamp(dest, t) == set_extension(dest, extension(dest) \o << timestamp(t) >>)

FinalDest(f, src, dest, t) ==
    LET d == Redirect(f, src, dest)
    IN  IF exists(f, d) THEN Stamp(d, t) ELSE d

\* The executor with a failure report that names the destination.
handle_move_task_names_dest(f, src, dest, t) ==
    LET d1 == Redirect(f, src, dest)
        at == IF exists(f, d1) THEN t ELSE 0
    IN  IF exists(f, d1) /\ extension(d1) = << >>
        THEN [fs |-> f, final |-> d1, result |-> "panic", at |-> 0, says |-> << >>]
        ELSE LET d2 == FinalDest(f, src, dest, t)
                 f1 == create_dir(f, pop(d2))
             IN  IF rename_ok(f1, src, d2)
                 THEN [fs |-> rename(f1, src, d2, at, IF at = 0 THEN << >> ELSE dest),
                       final |-> d2, result |-> "ok", at |-> at, says |-> d2]
                 ELSE [fs |-> f1, final |-> d2, result |-> "err", at |-> at,
                       says |-> d2]

handle_move_task(f, src, dest, t) ==
    LET d1 == Redirect(f, src, dest)
        at == IF exists(f, d1) THEN t ELSE 0
    IN  IF exists(f, d1) /\ extension(d1) = << >>
        THEN [fs |-> f, final |-> d1, result |-> "panic", at |-> 0, says |-> << >>]
        ELSE LET d2 == FinalDest(f, src, dest, t)
                 f1 == create_dir(f, pop(d2))
             IN  IF rename_ok(f1, src, d2)
                 THEN [fs |-> rename(f1, src, d2, at, IF at = 0 THEN << >> ELSE dest),
                       final |-> d2, result |-> "ok", at |-> at, says |-> d2]
                 ELSE [fs |-> f1, final |-> d2, result |-> "err", at |-> at,
                       says |-> src]

\* ---------------------------------------------------------- configuration
\* The Tasks and Rulesets a configuration like examples/demo.rs builds: one
\* Task bound to a Resolver and shared by both Rulesets, one pattern Task
\* with a destination, one Task that inherits the watched root, one Task
\* for directories only.
Tasks ==
    [ zips   |-> [watched_types |-> "Files", event_check |-> "on_create",
                  match_pattern |-> << "zip" >>, inner |-> FALSE],
      shared |-> [watched_types |-> "All", event_check |-> "on_create",
                  match_pattern |-> << >>, inner |-> TRUE],
      flat   |-> [watched_types |-> "All", event_check |-> "on_create",
                  match_pattern |-> << >>, inner |-> FALSE],
      dirs   |-> [watched_types |-> "Dirs", event_check |-> "on_create",
                  match_pattern |-> << >>, inner |-> FALSE] ]

TaskIds == DOMAIN Tasks

\* Ruleset{watched_path, tasks: Vec<InnerTask{task, dest}>}; dest is what
\* Ruleset::add stored: the normalized destination, or the watched root.
Rules ==
    << [watched_path |-> W1,
        tasks |-> << [task |-> "zips", dest |-> Z],
                     [task |-> "shared", dest |-> Z],
                     [task |-> "dirs", dest |-> Z] >>],
       [watched_path |-> W2,
        tasks |-> << [task |-> "shared", dest |-> Z],
                     [task |-> "flat", dest |-> W2] >>] >>

Watchers == DOMAIN Rules

\* The closures Task::on_create and Task::on_modified store; prev is the
\* previous kind watch_one hands over (None when the buffer had none).
event_check(name, kind, prev) ==
    CASE name = "on_create" -> kind = "Create"
      [] name = "on_modified" -> kind = "Modify"

\* Regex::captures on the path text, for the pattern \.<ext>$ .
re_captures(pattern, src) == extension(src) = pattern

IsWindows == TRUE

PartialMarker(src) == IsWindows /\ extension(src) = << "part" >>

\* QueueTask values.
QItem(kind, src, dest, msg) == [kind |-> kind, src |-> src, dest |-> dest, msg |-> msg]

NoPath == << >>

\* The end of Task::parse without the comparison of src and dest.
parse_tail_always_move(src, dest) == QItem("Move", src, dest, "")

\* Task::parse after the Resolver: the self-move check and the Move.
parse_tail(src, dest) ==
    IF src = dest THEN QItem("None", NoPath, NoPath, "")
    ELSE QItem("Move", src, dest, "")

\* Task::parse without the check that the source still exists.
parse_skips_no_exists(f, task, src) ==
    \/ PartialMarker(src)
    \/ Tasks[task].match_pattern # << >> /\ ~re_captures(Tasks[task].match_pattern, src)

\* Task::parse: the early returns, then the default destination.
parse_skips(f, task, src) ==
    \/ ~exists(f, src)
    \/ PartialMarker(src)
    \/ Tasks[task].match_pattern # << >> /\ ~re_captures(Tasks[task].match_pattern, src)

\* The default destination without the file name of the source.
default_dest_no_name(src, dest) == dest

default_dest(src, dest) == join(dest, file_name(src))

\* A folder two levels deep of which neither level exists.
Deep == << << "deep" >>, << "sub" >> >>

\* What a Resolver may answer for (src, dest).  A Move names, for a name
\* without extension, a folder that is not there yet or the source itself,
\* and otherwise an archive name in the dump folder that carries the
\* current second.
ResolverDests(src, dest, t) ==
    IF extension(src) = << >> THEN {join(Deep, file_name(src)), src}
    ELSE {Stamp(join(DumpFolder, file_name(src)), t)}

\* The variants of Resolved that end parse with a report or with nothing;
\* the sources share them out so that each variant occurs.
Reports(src) ==
    IF extension(src) = << >> THEN {"Path", "Ok"}
    ELSE IF pop(src) = W1 THEN {"None", "Info"}
    ELSE {"None", "Err"}

Verdicts(src, dest, t) ==
    {[kind |-> k, dest |-> NoPath] : k \in {"Continue"} \cup Reports(src)}
        \cup {[kind |-> "Move", dest |-> d] : d \in ResolverDests(src, dest, t)}

\* A match that takes the Resolver's Move for a Continue.
parse_resolved_default(src, dest, v) ==
    CASE v.kind \in {"Move", "Continue"} -> parse_tail(src, dest)
      [] v.kind = "None" -> QItem("None", NoPath, NoPath, "")
      [] OTHER -> QItem(v.kind, NoPath, NoPath, "msg")

\* The match in Task::parse over the Resolver's verdict.
parse_resolved(src, dest, v) ==
    CASE v.kind = "Move" -> parse_tail(src, v.dest)
      [] v.kind = "Continue" -> parse_tail(src, dest)
      [] v.kind = "None" -> QItem("None", NoPath, NoPath, "")
      [] OTHER -> QItem(v.kind, NoPath, NoPath, "msg")

\* ---------------------------------------------------------------- builder
\* Watch::new, Watch::watch, Ruleset::add and strip.  Here a path carries
\* whether it is absolute: abs is TRUE for a path with a root (c:\...), and
\* comps are the components below the root, or of the relative path.
Abs(comps) == [abs |-> TRUE, comps |-> comps]

Rel(comps) == [abs |-> FALSE, comps |-> comps]

W1In == << << "w1" >>, << "in" >> >>

\* The paths handed to Watch::watch.
Roots == {Abs(W1), Abs(W1In), Rel(W2)}

DIR_UP == "..\\"

DIR_CUR == ".\\"

\* A destination as written in set_destination: its leading markers one by
\* one, and what follows them.
Dest(marks, rest) == [marks |-> marks, rest |-> rest]

starts_with(s, marker) == s.marks # << >> /\ Head(s.marks) = marker

strip_prefix(s) == [s EXCEPT !.marks = Tail(@)]

RECURSIVE trim_start_matches(_, _)
trim_start_matches(s, marker) ==
    IF starts_with(s, marker) THEN trim_start_matches(strip_prefix(s), marker) ELSE s

\* PathBuf::pop: false, and nothing done, for a path without parent (the
\* root, or the empty path).
pop_path(p) ==
    IF p.comps = << >> THEN [ok |-> FALSE, path |-> p]
    ELSE [ok |-> TRUE, path |-> [p EXCEPT !.comps = pop(@)]]

\* PathBuf::push of a relative remainder.
push_path(p, rest) == [p EXCEPT !.comps = @ \o rest]

RECURSIVE strip(_, _)
strip(p, s) ==
    IF starts_with(s, DIR_UP)
    THEN IF pop_path(p).ok
         THEN strip(pop_path(p).path, strip_prefix(s))
         ELSE strip(p, trim_start_matches(s, DIR_UP))
    ELSE IF starts_with(s, DIR_CUR)
    THEN strip(p, strip_prefix(s))
    ELSE push_path(p, s.rest)

\* Task as the builder leaves it to Ruleset::add: the event predicate and
\* the destination (<< >> for none).  The Tasks above, written with the
\* destination that makes Z of either root, and Tasks for the other shapes
\* a destination can have; nopred never got an event predicate.
UpZ == Dest(<< DIR_UP >>, Z)

Shapes ==
    [ upupe   |-> Dest(<< DIR_UP, DIR_UP >>, << << "e" >> >>),
      upupup  |-> Dest(<< DIR_UP, DIR_UP, DIR_UP >>, << >>),
      curb    |-> Dest(<< DIR_CUR >>, << << "b" >> >>),
      upcurup |-> Dest(<< DIR_UP, DIR_CUR, DIR_UP >>, << << "e" >> >>),
      up      |-> Dest(<< DIR_UP >>, << >>) ]

Candidates ==
    [t \in TaskIds \cup DOMAIN Shapes \cup {"nopred"} |->
        IF t \in TaskIds
        THEN [event_check |-> Tasks[t].event_check,
              destination |-> IF t = "flat" THEN << >> ELSE << UpZ >>]
        ELSE IF t = "nopred"
        THEN [event_check |-> None, destination |-> << UpZ >>]
        ELSE [event_check |-> "on_create", destination |-> << Shapes[t] >>]]

\* Path::try_exists: Err when the path cannot be examined.
try_exists(f, comps, probe) ==
    IF probe = "Err" THEN "Err" ELSE IF exists(f, comps) THEN "Ok(true)" ELSE "Ok(false)"

RECURSIVE create_dir_all(_, _)
create_dir_all(f, comps) ==
    IF comps = << >> \/ exists(f, comps) THEN f
    ELSE create_dir(create_dir_all(f, pop(comps)), comps)

\* Watch::new: the filesystem afterwards.
new(f, dump_folder, probe) ==
    IF try_exists(f, dump_folder, probe) = "Err"
    THEN create_dir_all(f, dump_folder)
    ELSE f

Ruleset(path) == [watched_path |-> path, tasks |-> << >>]

\* Watch::watch: a path that is not there is skipped.
watch(f, rules, path) ==
    IF path.comps = << >> \/ exists(f, path.comps)
    THEN Append(rules, Ruleset(path))
    ELSE rules

\* Ruleset::add that stores whatever Task it is given.
add_unchecked(rule, t) ==
    [ panic |-> FALSE,
      rule |-> [rule EXCEPT !.tasks =
                  Append(@, [task |-> t,
                             dest |-> IF Candidates[t].destination = << >>
                                      THEN rule.watched_path
                                      ELSE strip(rule.watched_path,
                                                 Candidates[t].destination[1])])] ]

\* Ruleset::add: a panic for a Task without event predicate, else the
\* InnerTask pushed, with the destination normalized against the root.
add(rule, t) ==
    IF Candidates[t].event_check = None
    THEN [panic |-> TRUE, rule |-> rule]
    ELSE [ panic |-> FALSE,
           rule |-> [rule EXCEPT !.tasks =
                       Append(@, [task |-> t,
                                  dest |-> IF Candidates[t].destination = << >>
                                           THEN rule.watched_path
                                           ELSE strip(rule.watched_path,
                                                      Candidates[t].destination[1])])] ]

\* The Watch of the pipeline below, started: what the builder calls for
\* Rules leave behind.
Started ==
    [ pc |-> "started", panic |-> "", watched |-> Len(Rules), added |-> 5,
      rules |-> [w \in Watchers |->
                    [watched_path |-> Abs(Rules[w].watched_path),
                     tasks |-> [i \in 1..Len(Rules[w].tasks) |->
                                   [task |-> Rules[w].tasks[i].task,
                                    dest |-> Abs(Rules[w].tasks[i].dest)]]]] ]

\* File stems of the events.
Stems == {<< "a" >>, << "n" >>, << "p" >>}

NoOp == [op |-> "", before |-> << >>, item |-> << >>]

\* ------------------------------------------------------------------ state
\* pending[w]: events the debouncer of w has collected and not delivered;
\* pc[w], cur[w]: where watcher thread w is in watch_one and its locals;
\* bufLock, taskLock, modLock: the owner of each Mutex (0: free);
\* buffer: EVENT_BUFFER; cpc, citem: the consumer thread and the item it
\* received; last: what the consumer did with the latest item; erred: the
\* watcher whose event source last delivered an error batch; mainpc: the
\* thread inside start(); flag: the ready flags; setupErr: the error
\* watch_one returned; sentLog, recvLog: per watcher, the positions of the
\* items passed to send() and of those the consumer received.
VARIABLES pending, erred, pc, cur, bufLock, buffer, taskLock, modLock,
          cpc, citem, last, mainpc, flag, setupErr, sentLog, recvLog

\* conf: the Watch under construction (which call of the builder chain is
\* next, the Rulesets pushed so far, why it panicked); bop: the latest
\* operation on EVENT_BUFFER taken by itself, with the buffer before it;
\* seen[stem]: the kind of the latest event of that file stem whose
\* for_each closure has run to its end.
VARIABLES conf, bop, seen

vars == << fs, now, nextId, made, pending, erred, pc, cur, bufLock, buffer,
           taskLock, modLock, cpc, citem, last, mainpc, flag, setupErr,
           sentLog, recvLog, conf, bop, seen >>

Free == 0

BufferCapacity == 9

NoItem == QItem("None", NoPath, NoPath, "")

NoVerdict == [kind |-> "", dest |-> NoPath]

NoTag == [w |-> 0, ord |-> << 0, 0 >>, task |-> "", path |-> NoPath,
          dir |-> NoPath, kind |-> "", existed |-> FALSE, verdict |-> NoVerdict]

NoCur == [batch |-> << >>, evNo |-> 0, ev |-> 0, ti |-> 0, prev |-> None,
          kind |-> "", item |-> NoItem, tag |-> NoTag]

NoLast == [item |-> NoItem, result |-> "", final |-> NoPath, says |-> NoPath,
           before |-> << >>, lost |-> << >>, at |-> 0, changed |-> FALSE]

\* Files that may already lie in the destination and the dump folder.
Zip == << "a", "zip" >>
Plain == << "n" >>
Part == << "p", "part" >>

\* What appears in a watched root: a file or a directory, by name.
Creatable(w) ==
    IF Rules[w].watched_path = W1
    THEN { [name |-> Zip, kind |-> "file"], [name |-> Plain, kind |-> "dir"] }
    ELSE { [name |-> Zip, kind |-> "file"], [name |-> Part, kind |-> "file"] }

\* What lies in the destination and in the dump folder at the start:
\* nothing, or an archive and an extension-less name in both.
Occupied ==
    { {}, {join(Z, Zip), join(DUMP, Zip), join(Z, Plain), join(DUMP, Plain)} }

\* Roots registered by Watch::watch (they existed then) and gone since.
Vanished == { {}, {W1} }

\* Contents present before the program starts: made by nobody watched.
OldId(p) == << 0, pop(p)[1], 1 >>

InitFs(occ, gone) ==
    [p \in ({W1, W2, Z, DUMP} \ gone) \cup occ |->
        IF p \in occ
        THEN [kind |-> "file", id |-> OldId(p), at |-> 0, primary |-> << >>]
        ELSE Dir]

\* Before any thread has run.
InitThreads ==
    /\ now = 1
    /\ nextId = 1
    /\ made = [w \in Watchers |-> [c \in {x.name : x \in Creatable(w)} |-> 0]]
    /\ pending = [w \in Watchers |-> << >>]
    /\ erred = 0
    /\ pc = [w \in Watchers |-> "setup"]
    /\ cur = [w \in Watchers |-> NoCur]
    /\ bufLock = Free
    /\ buffer = << >>
    /\ taskLock = [t \in TaskIds |-> Free]
    /\ modLock = [t \in TaskIds |-> Free]
    /\ cpc = "idle"
    /\ citem = [item |-> NoItem, tag |-> NoTag]
    /\ last = NoLast
    /\ mainpc = "poll"
    /\ flag = [w \in Watchers |-> FALSE]
    /\ setupErr = [w \in Watchers |-> None]
    /\ sentLog = [w \in Watchers |-> << >>]
    /\ recvLog = [w \in Watchers |-> << >>]
    /\ bop = NoOp
    /\ seen = [k \in Stems |-> None]

Init ==
    /\ \E occ \in Occupied, gone \in Vanished :
          /\ occ = {} \/ gone = {}
          /\ fs = InitFs(occ, gone)
    /\ conf = Started
    /\ InitThreads

\* ------------------------------------------------------------ environment
\* The debouncer of w is watching.  The environment acts once every thread
\* is through its setup and start() has seen the ready flags (its loop
\* polls every 10 ms): nobody can tell an earlier event from a later one.
\* What happens in the root of w while its thread is busy waits in the
\* debouncer until the thread reads rx again, so it is taken to happen then.
Watching(w) ==
    /\ pc[w] = "recv"
    /\ \A v \in Watchers : pc[v] # "setup"
    /\ ~(mainpc = "poll" /\ \A v \in Watchers : flag[v])

\* The consumer holds an item that is no Move: print_done is all that is
\* left of its turn, and that touches nothing another thread or the
\* environment reads.  No step can tell whether it came before or after the
\* end of that turn, so the turn is taken to end first.
Printing == cpc = "handling" /\ citem.item.kind # "Move"

\* A file or directory is created in the root of w; the Event Source of w
\* notes a Create event for it.
EnvCreate(w, c) ==
    LET p == join(Rules[w].watched_path, c.name)
    IN  /\ nextId <= MaxEvents
        /\ ~Printing
        /\ Watching(w)
        /\ ~exists(fs, p)
        /\ fs' = [q \in DOMAIN fs \cup {p} |->
                    IF q = p
                    THEN [kind |-> c.kind, id |-> << w, c.name, made[w][c.name] + 1 >>,
                          at |-> 0, primary |-> << >>]
                    ELSE fs[q]]
        /\ made' = [made EXCEPT ![w][c.name] = @ + 1]
        /\ nextId' = nextId + 1
        /\ pending' = [pending EXCEPT ![w] = Append(@, [path |-> p, kind |-> "Create"])]
        /\ UNCHANGED << conf, bop, seen, now, erred, pc, cur, bufLock, buffer, taskLock, modLock,
                        cpc, citem, last, mainpc, flag, setupErr, sentLog, recvLog >>

\* A file of the root of w is written to: a Modify event.
EnvModify(w) ==
    /\ nextId <= MaxEvents
    /\ ~Printing
    /\ Watching(w)
    /\ \E p \in DOMAIN fs :
          /\ pop(p) = Rules[w].watched_path
          /\ is_file(fs, p)
          /\ pending' = [pending EXCEPT ![w] = Append(@, [path |-> p, kind |-> "Modify"])]
    /\ nextId' = nextId + 1
    /\ UNCHANGED << conf, bop, seen, fs, now, made, erred, pc, cur, bufLock, buffer, taskLock, modLock,
                    cpc, citem, last, mainpc, flag, setupErr, sentLog, recvLog >>

\* The wall clock reaches the next second.  Only the steps that read the
\* clock can tell when it advanced, so it advances right before them.
ClockRead ==
    \/ /\ cpc = "handling"
       /\ citem.item.kind = "Move"
       /\ NeedsStamp(fs, citem.item.src, citem.item.dest)
    \/ \E w \in Watchers : pc[w] = "resolve" /\ extension(cur[w].tag.path) # << >>

Tick ==
    /\ now < MaxClock
    /\ ~Printing
    /\ ClockRead
    /\ now' = now + 1
    /\ UNCHANGED << conf, bop, seen, fs, made, nextId, pending, erred, pc, cur, bufLock, buffer, taskLock,
                    modLock, cpc, citem, last, mainpc, flag, setupErr, sentLog, recvLog >>

\* ---------------------------------------------------------------- watch_one
\* new_debouncer(..)? and debouncer.watch(path, mode)? : an error returns
\* from watch_one before the ready flag is touched; the spawning closure
\* prints it and the thread ends.
SetupError(w) ==
    IF ~exists(fs, Rules[w].watched_path) THEN {"PathNotFound"} ELSE {None, "Generic"}

\* A setup error that ends every watcher thread, not only its own.
AfterSetupErrorAll(w) == [v \in Watchers |-> "failed"]

AfterSetupError(w) == [pc EXCEPT ![w] = "failed"]

Setup(w) ==
    /\ pc[w] = "setup"
    /\ ~Printing
    /\ \E e \in SetupError(w) :
        IF e = None
        THEN /\ pc' = [pc EXCEPT ![w] = "recv"]
             /\ flag' = [flag EXCEPT ![w] = TRUE]
             /\ UNCHANGED setupErr
        ELSE /\ pc' = AfterSetupError(w)
             /\ setupErr' = [setupErr EXCEPT ![w] = e]
             /\ UNCHANGED flag
    /\ UNCHANGED << conf, bop, seen, fs, now, made, nextId, pending, erred, cur, bufLock, buffer, taskLock,
                    modLock, cpc, citem, last, mainpc, sentLog, recvLog >>

\* The events of a batch, last first.
events_rev(events) == [i \in 1..Len(events) |-> events[Len(events) + 1 - i]]

\* events.iter(): the events of a batch in the order the Event Source
\* delivered them.
events_iter(events) == events

\* The events of a batch, each with its number in the delivery order of
\* this Event Source (n events were delivered before).
Numbered(events, n) ==
    [i \in 1..Len(events) |->
        [path |-> events[i].path, kind |-> events[i].kind, no |-> n + i]]

\* for result in rx, Ok(events): the batch is what the debouncer collected.
RecvBatch(w) ==
    /\ pc[w] = "recv"
    /\ ~Printing
    /\ pending[w] # << >>
    /\ cur' = [cur EXCEPT ![w].batch = events_iter(Numbered(pending[w], cur[w].evNo)),
                          ![w].evNo = @ + Len(pending[w])]
    /\ pending' = [pending EXCEPT ![w] = << >>]
    /\ pc' = [pc EXCEPT ![w] = "lockbuf"]
    /\ UNCHANGED << conf, bop, seen, fs, now, made, nextId, erred, bufLock, buffer, taskLock, modLock,
                    cpc, citem, last, mainpc, flag, setupErr, sentLog, recvLog >>

\* for result in rx, Err(errors): printed, the loop goes on.
RecvErr(w) ==
    /\ pc[w] = "recv"
    /\ ~Printing
    /\ nextId <= MaxEvents
    /\ Watching(w)
    /\ nextId' = nextId + 1
    /\ erred' = w
    /\ UNCHANGED << conf, bop, seen, fs, now, made, pending, pc, cur, bufLock, buffer, taskLock,
                    modLock, cpc, citem, last, mainpc, flag, setupErr, sentLog, recvLog >>

\* A lock that excludes nobody.
CanLockAlways(owner, w) == TRUE

\* Mutex::lock: possible for w when nobody owns the lock.
CanLock(owner, w) == owner = Free

\* EVENT_BUFFER.lock(): held until the whole batch is done.
LockBuffer(w) ==
    /\ pc[w] = "lockbuf"
    /\ ~Printing
    /\ CanLock(bufLock, w)
    /\ bufLock' = w
    /\ cur' = [cur EXCEPT ![w].ev = 1]
    /\ pc' = [pc EXCEPT ![w] = "event"]
    /\ UNCHANGED << conf, bop, seen, fs, now, made, nextId, pending, erred, buffer, taskLock, modLock,
                    cpc, citem, last, mainpc, flag, setupErr, sentLog, recvLog >>

\* A push that makes room at the wrong end: a full buffer drops its newest
\* entry.
push_drop_newest(buf, item) ==
    Append(IF Len(buf) = BufferCapacity THEN SubSeq(buf, 1, Len(buf) - 1) ELSE buf, item)

\* Buffer::push: a full buffer first drops its oldest entry.
push(buf, item) ==
    Append(IF Len(buf) = BufferCapacity THEN Tail(buf) ELSE buf, item)

\* Buffer::remove(idx), idx counted from 1 here.
remove(buf, idx) == SubSeq(buf, 1, idx - 1) \o SubSeq(buf, idx + 1, Len(buf))

\* iter().position(|(k, _)| k == needle), 0 when there is none.
position(buf, needle) ==
    IF \E i \in 1..Len(buf) : buf[i].key = needle
    THEN CHOOSE i \in 1..Len(buf) :
            buf[i].key = needle /\ \A j \in 1..(i - 1) : buf[j].key # needle
    ELSE 0

\* A lookup that reads the entry and leaves it in the buffer.
get_with_key_keep(buf, needle) ==
    LET idx == position(buf, needle)
    IN  IF idx = 0 THEN [value |-> None, buf |-> buf]
        ELSE [value |-> buf[idx].kind, buf |-> buf]

\* Buffer::get_with_key: the value of the first entry with the key, which
\* is removed from the buffer.
get_with_key(buf, needle) ==
    LET idx == position(buf, needle)
    IN  IF idx = 0 THEN [value |-> None, buf |-> buf]
        ELSE [value |-> buf[idx].kind, buf |-> remove(buf, idx)]

Event(w) == cur[w].batch[cur[w].ev]

Inner(w) == Rules[w].tasks[cur[w].ti]

\* The Ok(events) arm is done: the guard of EVENT_BUFFER is dropped.
EndBatch(w) ==
    /\ pc[w] = "event"
    /\ ~Printing
    /\ cur[w].ev > Len(cur[w].batch)
    /\ bufLock' = Free
    /\ cur' = [cur EXCEPT ![w].batch = << >>, ![w].ev = 0]
    /\ pc' = [pc EXCEPT ![w] = "recv"]
    /\ UNCHANGED << conf, bop, seen, fs, now, made, nextId, pending, erred, buffer, taskLock, modLock,
                    cpc, citem, last, mainpc, flag, setupErr, sentLog, recvLog >>

\* The head of the for_each closure: the previous kind of this file stem
\* is taken out of the buffer.
BeginEvent(w) ==
    /\ pc[w] = "event"
    /\ ~Printing
    /\ cur[w].ev <= Len(cur[w].batch)
    /\ LET got == get_with_key(buffer, file_stem(Event(w).path))
       IN  /\ buffer' = got.buf
           /\ cur' = [cur EXCEPT ![w].prev = got.value, ![w].ti = 1]
    /\ pc' = [pc EXCEPT ![w] = "task"]
    /\ UNCHANGED << conf, bop, seen, fs, now, made, nextId, pending, erred, bufLock, taskLock, modLock,
                    cpc, citem, last, mainpc, flag, setupErr, sentLog, recvLog >>

\* All Tasks of the Ruleset are through: buf.push((file_stem, event.kind)).
EndEvent(w) ==
    /\ pc[w] = "task"
    /\ ~Printing
    /\ cur[w].ti > Len(Rules[w].tasks)
    /\ buffer' = push(buffer, [key |-> file_stem(Event(w).path), kind |-> Event(w).kind])
    /\ seen' = [seen EXCEPT ![file_stem(Event(w).path)] = Event(w).kind]
    /\ cur' = [cur EXCEPT ![w].ev = @ + 1, ![w].ti = 0, ![w].prev = None]
    /\ pc' = [pc EXCEPT ![w] = "event"]
    /\ UNCHANGED << conf, bop, fs, now, made, nextId, pending, erred, bufLock, taskLock, modLock,
                    cpc, citem, last, mainpc, flag, setupErr, sentLog, recvLog >>

\* An entity-kind match that lets every path pass.
kind_passes_any(f, watched_types, path) == TRUE

\* The two matches at the head of the Task loop: the entity kind, then the
\* event predicate.
kind_passes(f, watched_types, path) ==
    CASE watched_types = "Dirs" -> is_dir(f, path)
      [] watched_types = "Files" -> is_file(f, path)
      [] OTHER -> TRUE

task_passes(f, task, ev, prev) ==
    /\ kind_passes(f, Tasks[task].watched_types, ev.path)
    /\ Tasks[task].event_check # None
    /\ event_check(Tasks[task].event_check, ev.kind, prev)

\* inner.task.lock() and a continue: the guard is dropped at once.
SkipTask(w) ==
    /\ pc[w] = "task"
    /\ ~Printing
    /\ cur[w].ti <= Len(Rules[w].tasks)
    /\ CanLock(taskLock[Inner(w).task], w)
    /\ ~task_passes(fs, Inner(w).task, Event(w), cur[w].prev)
    /\ cur' = [cur EXCEPT ![w].ti = @ + 1]
    /\ UNCHANGED << conf, bop, seen, fs, now, made, nextId, pending, erred, pc, bufLock, buffer, taskLock,
                    modLock, cpc, citem, last, mainpc, flag, setupErr, sentLog, recvLog >>

\* What path.is_dir() and path.is_file() saw.
KindOf(f, p) == IF exists(f, p) THEN f[p].kind ELSE "none"

\* inner.task.lock() and both matches passed: on to task.parse with the
\* guard held.
MatchTask(w) ==
    /\ pc[w] = "task"
    /\ ~Printing
    /\ cur[w].ti <= Len(Rules[w].tasks)
    /\ CanLock(taskLock[Inner(w).task], w)
    /\ task_passes(fs, Inner(w).task, Event(w), cur[w].prev)
    /\ taskLock' = [taskLock EXCEPT ![Inner(w).task] = w]
    /\ cur' = [cur EXCEPT ![w].kind = KindOf(fs, Event(w).path)]
    /\ pc' = [pc EXCEPT ![w] = "parse"]
    /\ UNCHANGED << conf, bop, seen, fs, now, made, nextId, pending, erred, bufLock, buffer, modLock,
                    cpc, citem, last, mainpc, flag, setupErr, sentLog, recvLog >>

\* What the properties keep of an item: the thread, the event's number and
\* the Task's index, the Task, its stored destination directory, the
\* event's path, what the entity-kind match saw at the path, whether
\* Task::parse found the path on disk, and the Resolver's answer.
Tag(w) ==
    [w |-> w, ord |-> << Event(w).no, cur[w].ti >>,
     task |-> Inner(w).task, path |-> Event(w).path, dir |-> Inner(w).dest,
     kind |-> cur[w].kind, existed |-> exists(fs, Event(w).path),
     verdict |-> NoVerdict]

\* Task::parse up to the Resolver: an early return, the Move of a Task
\* without Resolver, or x.lock() of the Resolver.
Parse(w) ==
    LET t == Inner(w).task
        src == Event(w).path
    IN  /\ pc[w] = "parse"
        /\ ~Printing
        /\ IF parse_skips(fs, t, src)
           THEN /\ cur' = [cur EXCEPT ![w].item = NoItem, ![w].tag = Tag(w)]
                /\ pc' = [pc EXCEPT ![w] = "send"]
                /\ UNCHANGED modLock
           ELSE IF Tasks[t].inner
           THEN /\ CanLock(modLock[t], w)
                /\ modLock' = [modLock EXCEPT ![t] = w]
                /\ cur' = [cur EXCEPT ![w].tag = Tag(w)]
                /\ pc' = [pc EXCEPT ![w] = "resolve"]
           ELSE /\ cur' = [cur EXCEPT
                            ![w].item = parse_tail(src, default_dest(src, Inner(w).dest)),
                            ![w].tag = Tag(w)]
                /\ pc' = [pc EXCEPT ![w] = "send"]
                /\ UNCHANGED modLock
        /\ UNCHANGED << conf, bop, seen, fs, now, made, nextId, pending, erred, bufLock, buffer, taskLock,
                        cpc, citem, last, mainpc, flag, setupErr, sentLog, recvLog >>

\* resolve() returns; the Resolver's guard is dropped; the rest of parse.
Resolve(w) ==
    LET t == Inner(w).task
        src == Event(w).path
        dest == default_dest(src, Inner(w).dest)
    IN  /\ pc[w] = "resolve"
        /\ ~Printing
        /\ \E v \in Verdicts(src, dest, now) :
              cur' = [cur EXCEPT ![w].item = parse_resolved(src, dest, v),
                                 ![w].tag.verdict = v]
        /\ modLock' = [modLock EXCEPT ![t] = Free]
        /\ pc' = [pc EXCEPT ![w] = "send"]
        /\ UNCHANGED << conf, bop, seen, fs, now, made, nextId, pending, erred, bufLock, buffer, taskLock,
                        cpc, citem, last, mainpc, flag, setupErr, sentLog, recvLog >>

\* scheduler.send(..) on the zero-capacity channel: it returns when the
\* consumer, waiting in its for loop, takes the item.  The Task's guard is
\* dropped at the end of the loop body.
Send(w) ==
    /\ pc[w] = "send"
    /\ cpc = "idle"
    /\ citem' = [item |-> cur[w].item, tag |-> cur[w].tag]
    /\ cpc' = "handling"
    /\ sentLog' = [sentLog EXCEPT ![w] = Append(@, cur[w].tag.ord)]
    /\ recvLog' = [recvLog EXCEPT ![w] = Append(@, cur[w].tag.ord)]
    /\ taskLock' = [taskLock EXCEPT ![Inner(w).task] = Free]
    /\ cur' = [cur EXCEPT ![w].ti = @ + 1, ![w].kind = "", ![w].item = NoItem,
                          ![w].tag = NoTag]
    /\ pc' = [pc EXCEPT ![w] = "task"]
    /\ UNCHANGED << conf, bop, seen, fs, now, made, nextId, pending, erred, bufLock, buffer, modLock,
                    last, mainpc, flag, setupErr >>

\* A receiver that outlives its thread: the channel never disconnects.
DisconnectedNever == FALSE

\* The consumer's closure owns queue_rx (for .. in queue_rx moves it in):
\* when the thread dies the receiver is dropped and the channel disconnects.
Disconnected == cpc = "dead"

\* send() on a channel whose receiver is gone (the consumer thread died):
\* Err(SendError), which watch_one ignores; the item is lost.
SendDisconnected(w) ==
    /\ pc[w] = "send"
    /\ Disconnected
    /\ sentLog' = [sentLog EXCEPT ![w] = Append(@, cur[w].tag.ord)]
    /\ taskLock' = [taskLock EXCEPT ![Inner(w).task] = Free]
    /\ cur' = [cur EXCEPT ![w].ti = @ + 1, ![w].kind = "", ![w].item = NoItem,
                          ![w].tag = NoTag]
    /\ pc' = [pc EXCEPT ![w] = "task"]
    /\ UNCHANGED << conf, bop, seen, fs, now, made, nextId, pending, erred, bufLock, buffer, modLock,
                    cpc, citem, last, mainpc, flag, setupErr, recvLog >>

\* --------------------------------------------------------------- consumer
Opt(f, p) == IF exists(f, p) THEN << f[p] >> ELSE << >>

\* QueueTask::print_done: the Msg handed to send_print.
print_done(kind) == IF kind \in {"Path", "Info", "Ok", "Err"} THEN "Text" ELSE "None"

\* One turn of the consumer's loop: handle_move_task on the item received,
\* then send_print.  A panic ends the thread and drops the receiver.
Handle ==
    /\ cpc = "handling"
    /\ IF citem.item.kind = "Move"
       THEN \E r \in {handle_move_task(fs, citem.item.src, citem.item.dest, now)} :
                /\ fs' = r.fs
                /\ cpc' = IF r.result = "panic" THEN "dead" ELSE "idle"
                /\ last' = [item |-> citem.item,
                            result |-> r.result, final |-> r.final, says |-> r.says,
                            before |-> Opt(fs, citem.item.dest),
                            lost |-> IF r.result = "ok" THEN Opt(fs, r.final) ELSE << >>,
                            at |-> r.at, changed |-> r.fs # fs]
       ELSE /\ fs' = fs
            /\ cpc' = "idle"
            /\ last' = [item |-> citem.item,
                        result |-> print_done(citem.item.kind), final |-> NoPath,
                        says |-> NoPath,
                        before |-> << >>, lost |-> << >>, at |-> 0, changed |-> FALSE]
    /\ UNCHANGED << conf, bop, seen, now, made, nextId, pending, erred, pc, cur, bufLock, buffer, taskLock,
                    modLock, citem, mainpc, flag, setupErr, sentLog, recvLog >>

\* ------------------------------------------------------------------ start
\* The loop at the end of the scope in start(): it is left once as many
\* ready flags are set as there are Rulesets.
ReadyCount == Cardinality({w \in Watchers : flag[w]})

\* The loop left as soon as one watcher is ready.
AnyReady == ReadyCount >= 1

AllReady == ReadyCount = Len(Rules)

StartReady ==
    /\ mainpc = "poll"
    /\ ~Printing
    /\ AllReady
    /\ mainpc' = "join"
    /\ UNCHANGED << conf, bop, seen, fs, now, made, nextId, pending, erred, pc, cur, bufLock, buffer, taskLock,
                    modLock, cpc, citem, last, flag, setupErr, sentLog, recvLog >>

Next ==
    \/ \E w \in Watchers : \E c \in Creatable(w) : EnvCreate(w, c)
    \/ \E w \in Watchers : EnvModify(w)
    \/ Tick
    \/ \E w \in Watchers : Setup(w)
    \/ \E w \in Watchers : RecvBatch(w)
    \/ \E w \in Watchers : RecvErr(w)
    \/ \E w \in Watchers : LockBuffer(w)
    \/ \E w \in Watchers : EndBatch(w)
    \/ \E w \in Watchers : BeginEvent(w)
    \/ \E w \in Watchers : EndEvent(w)
    \/ \E w \in Watchers : SkipTask(w)
    \/ \E w \in Watchers : MatchTask(w)
    \/ \E w \in Watchers : Parse(w)
    \/ \E w \in Watchers : Resolve(w)
    \/ \E w \in Watchers : Send(w)
    \/ \E w \in Watchers : SendDisconnected(w)
    \/ Handle
    \/ StartReady

Spec == Init /\ [][Next]_vars

\* ------------------------------------------------------------- scheduling
\* The threads taken by themselves: every watcher is through its setup,
\* start() has seen the ready flags, and the debouncers hold what happened
\* in the roots; nothing happens there any more.  In a root an archive is
\* created, then a second entry, then the archive is written to; each
\* debouncer holds the first n of these.
Arrivals(w) ==
    LET zip == join(Rules[w].watched_path, Zip)
        other == CHOOSE c \in Creatable(w) : c.name # Zip
    IN  << [path |-> zip, kind |-> "Create"],
           [path |-> join(Rules[w].watched_path, other.name), kind |-> "Create"],
           [path |-> zip, kind |-> "Modify"] >>

Held(w, n) == SubSeq(Arrivals(w), 1, IF n < Len(Arrivals(w)) THEN n ELSE Len(Arrivals(w)))

\* The filesystem once the entries of the held events were created.
ArrivedFs(occ, n) ==
    LET made_by(p) == {w \in Watchers : \E i \in 1..Len(Held(w, n[w])) : Held(w, n[w])[i].path = p}
        created == {p \in UNION {{join(Rules[w].watched_path, c.name) : c \in Creatable(w)} :
                                    w \in Watchers} : made_by(p) # {}}
        kind_of(p) == (CHOOSE c \in Creatable(CHOOSE w \in made_by(p) : TRUE) :
                          c.name = file_name(p)).kind
    IN  [p \in DOMAIN InitFs(occ, {}) \cup created |->
            IF p \in created
            THEN [kind |-> kind_of(p),
                  id |-> << CHOOSE w \in made_by(p) : TRUE, file_name(p), 1 >>,
                  at |-> 0, primary |-> << >>]
            ELSE InitFs(occ, {})[p]]

InitPipe ==
    /\ \E occ \in Occupied, n \in {[w \in Watchers |-> k] : k \in 0..MaxEvents} :
          /\ fs = ArrivedFs(occ, n)
          /\ pending = [w \in Watchers |-> Held(w, n[w])]
          /\ made = [w \in Watchers |-> [c \in {x.name : x \in Creatable(w)} |->
                        IF exists(ArrivedFs(occ, n), join(Rules[w].watched_path, c)) THEN 1 ELSE 0]]
    /\ now = 1
    /\ nextId = MaxEvents + 1
    /\ erred = 0
    /\ pc = [w \in Watchers |-> "recv"]
    /\ cur = [w \in Watchers |-> NoCur]
    /\ bufLock = Free
    /\ buffer = << >>
    /\ taskLock = [t \in TaskIds |-> Free]
    /\ modLock = [t \in TaskIds |-> Free]
    /\ cpc = "idle"
    /\ citem = [item |-> NoItem, tag |-> NoTag]
    /\ last = NoLast
    /\ mainpc = "join"
    /\ flag = [w \in Watchers |-> TRUE]
    /\ setupErr = [w \in Watchers |-> None]
    /\ sentLog = [w \in Watchers |-> << >>]
    /\ recvLog = [w \in Watchers |-> << >>]
    /\ conf = Started
    /\ bop = NoOp
    /\ seen = [k \in Stems |-> None]

NextPipe ==
    \/ Tick
    \/ \E w \in Watchers : RecvBatch(w)
    \/ \E w \in Watchers : LockBuffer(w)
    \/ \E w \in Watchers : EndBatch(w)
    \/ \E w \in Watchers : BeginEvent(w)
    \/ \E w \in Watchers : EndEvent(w)
    \/ \E w \in Watchers : SkipTask(w)
    \/ \E w \in Watchers : MatchTask(w)
    \/ \E w \in Watchers : Parse(w)
    \/ \E w \in Watchers : Resolve(w)
    \/ \E w \in Watchers : Send(w)
    \/ \E w \in Watchers : SendDisconnected(w)
    \/ Handle

\* The threads are scheduled: the consumer, which waits for nothing but the
\* queue, ends the turn it began, and a send() whose receiver is waiting or
\* gone returns.
FairSpec ==
    /\ InitPipe
    /\ [][NextPipe]_vars
    /\ WF_vars(Handle)
    /\ \A w \in Watchers : WF_vars(Send(w)) /\ WF_vars(SendDisconnected(w))

\* ----------------------------------------------------------- configuring
\* The builder chain of main(): Watch::new, then Watch::watch with a
\* closure that calls Ruleset::add on the Ruleset just pushed, then start.
\* No thread runs before start.
Threads == << now, nextId, made, pending, erred, pc, cur, taskLock, modLock, cpc,
              citem, last, mainpc, flag, setupErr, sentLog, recvLog, seen >>

Fresh == [pc |-> "new", panic |-> "", watched |-> 0, added |-> 0, rules |-> << >>]

\* What is on disk when main() begins: of the dump folder and the relative
\* root, either may be missing.
Absent == { {}, {DUMP}, {W2} }

ConfigFs(gone) == [p \in {W1, W1In, W2, Z, DUMP} \ gone |-> Dir]

InitConfig ==
    /\ \E gone \in Absent : fs = ConfigFs(gone)
    /\ conf = Fresh
    /\ InitThreads

\* Watch::new(config); create_dir_all(..).expect(..) panics when it fails.
CfgNew ==
    /\ conf.pc = "new"
    /\ \E probe \in {"Ok", "Err"}, created \in BOOLEAN :
          IF try_exists(fs, DumpFolder, probe) = "Err" /\ ~created
          THEN /\ conf' = [conf EXCEPT !.pc = "panicked", !.panic = "expect"]
               /\ UNCHANGED fs
          ELSE /\ fs' = new(fs, DumpFolder, probe)
               /\ conf' = [conf EXCEPT !.pc = "building"]
    /\ UNCHANGED << Threads, bufLock, buffer, bop >>

CfgWatch(path) ==
    /\ conf.pc = "building"
    /\ conf.watched < MaxWatch
    /\ conf' = [conf EXCEPT !.rules = watch(fs, @, path), !.watched = @ + 1]
    /\ UNCHANGED << Threads, fs, bufLock, buffer, bop >>

\* r.add(&task) inside the closure: on self.rules.last_mut().
CfgAdd(t) ==
    /\ conf.pc = "building"
    /\ conf.rules # << >>
    /\ conf.added < MaxAdd
    /\ LET n == Len(conf.rules)
           r == add(conf.rules[n], t)
       IN  IF r.panic
           THEN conf' = [conf EXCEPT !.pc = "panicked", !.panic = "event_check"]
           ELSE conf' = [conf EXCEPT !.rules[n] = r.rule, !.added = @ + 1]
    /\ UNCHANGED << Threads, fs, bufLock, buffer, bop >>

CfgStart ==
    /\ conf.pc = "building"
    /\ conf' = [conf EXCEPT !.pc = "started"]
    /\ UNCHANGED << Threads, fs, bufLock, buffer, bop >>

NextConfig ==
    \/ CfgNew
    \/ \E path \in Roots : CfgWatch(path)
    \/ \E t \in DOMAIN Candidates : CfgAdd(t)
    \/ CfgStart

ConfigSpec == InitConfig /\ [][NextConfig]_vars

\* ----------------------------------------------------------- EVENT_BUFFER
\* Buffer taken by itself: any sequence of pushes and lookups, each made
\* under the Mutex of EVENT_BUFFER and so one at a time.
Entries ==
    { [key |-> << "a" >>, kind |-> "Create"], [key |-> << "a" >>, kind |-> "Modify"],
      [key |-> << "n" >>, kind |-> "Create"] }

InitBuffer ==
    /\ fs = InitFs({}, {})
    /\ conf = Started
    /\ InitThreads

BufPush(item) ==
    /\ buffer' = push(buffer, item)
    /\ bop' = [op |-> "push", before |-> buffer, item |-> << item >>]
    /\ UNCHANGED << Threads, fs, conf, bufLock >>

BufGet(key) ==
    LET got == get_with_key(buffer, key)
    IN  /\ buffer' = got.buf
        /\ bop' = [op |-> "get", before |-> buffer,
                   item |-> << [key |-> key, kind |-> got.value] >>]
        /\ UNCHANGED << Threads, fs, conf, bufLock >>

NextBuffer ==
    \/ \E item \in Entries : BufPush(item)
    \/ \E key \in {e.key : e \in Entries} : BufGet(key)

BufferSpec == InitBuffer /\ [][NextBuffer]_vars

\* ------------------------------------------------------------- properties
\* The latest item was a Move whose destination was occupied when the
\* executor looked at it.
Collided == last.item.kind = "Move" /\ last.before # << >>

DumpName(src) == join(DumpFolder, file_name(src))

\* C1: collision safety.  Whenever the executor has handled a Move{src, dest}
\* whose dest already existed, it did not rename onto dest, what it moved
\* lies at dump_folder/<file name of src> or at that path with the second
\* appended to the extension, and what was at dest is still there, unchanged.
C1_CollisionSafety ==
    Collided =>
        /\ last.result = "ok" => last.final # last.item.dest
        /\ last.result = "ok" =>
              last.final \in {DumpName(last.item.src),
                              Stamp(DumpName(last.item.src), last.at)}
        /\ Opt(fs, last.item.dest) = last.before

\* C2: timestamp disambiguation is unique.  A Move that collided on its
\* destination and on the dump path, and so got a timestamped name, never
\* replaces a file of another source that the executor gave a timestamped
\* name in the same second after the same two collisions: the two Moves end
\* at two paths.
C2_TimestampUnique ==
    (/\ last.item.kind = "Move"
     /\ last.result = "ok"
     /\ last.at # 0
     /\ last.lost # << >>
     /\ last.lost[1].primary = last.item.dest)
        => last.lost[1].at # last.at

\* The (item, tag) pairs in the pipeline: what a watcher is passing to
\* send(), and what the consumer received last.
InPipeline ==
    {[item |-> cur[w].item, tag |-> cur[w].tag] : w \in {v \in Watchers : pc[v] = "send"}}
        \cup (IF citem.tag.w # 0 THEN {citem} ELSE {})

PatternOk(tag) ==
    \/ Tasks[tag.task].match_pattern = << >>
    \/ extension(tag.path) = Tasks[tag.task].match_pattern

DefaultMove(tag) ==
    QItem("Move", tag.path, join(tag.dir, file_name(tag.path)), "")

NoDuplicates(log) == \A i, j \in 1..Len(log) : i # j => log[i] # log[j]

\* C3 as stated: for an event on an existing path that passed the entity
\* filter, the event predicate and the pattern of a Task without Resolver,
\* the item sent is Move{src: path, dest: destination directory/file name}.
C3_MoveForEveryMatch ==
    \A x \in InPipeline :
        (~Tasks[x.tag.task].inner /\ x.tag.existed /\ PatternOk(x.tag))
            => x.item = DefaultMove(x.tag)

\* C3 amended: the same, for a path without the partial-download marker
\* whose default destination is not the path itself; in the two remaining
\* cases the one item is QueueTask::None.  One item per (event, Task): no
\* position is sent twice, and a position being sent was not sent before.
C3_MoveForMatch ==
    /\ \A x \in InPipeline :
          (~Tasks[x.tag.task].inner /\ x.tag.existed /\ PatternOk(x.tag))
              => IF PartialMarker(x.tag.path) \/ DefaultMove(x.tag).dest = x.tag.path
                 THEN x.item = NoItem
                 ELSE x.item = DefaultMove(x.tag)
    /\ \A w \in Watchers :
          /\ NoDuplicates(sentLog[w])
          /\ pc[w] = "send" =>
                \A i \in 1..Len(sentLog[w]) : sentLog[w][i] # cur[w].tag.ord

\* The consumer holds the Move of the pattern Task for a file of its root.
C3_Witness ==
    /\ cpc = "handling"
    /\ citem.tag.task = "zips"
    /\ citem.tag.existed
    /\ citem.item = QItem("Move", join(W1, Zip), join(Z, Zip), "")

\* The cases in which Task::parse is to skip: the path is gone, it carries
\* the partial-download marker, or it does not match the Task's pattern.
SkipCase(tag) == ~tag.existed \/ PartialMarker(tag.path) \/ ~PatternOk(tag)

\* C4 as stated: for a skipped (event, Task) pair nothing is sent on the
\* Dispatch Queue, so the consumer never receives an item of such a pair.
C4_NothingSentWhenSkipped == ~(citem.tag.w # 0 /\ SkipCase(citem.tag))

\* C4 amended: for a skipped pair the item sent is QueueTask::None, never a
\* Move or a report, and the consumer's handling of a None item changes
\* nothing on disk and hands Msg::None to send_print.
C4_NoneSentWhenSkipped ==
    /\ \A x \in InPipeline : SkipCase(x.tag) => x.item = NoItem
    /\ last.item.kind = "None" => ~last.changed /\ last.result \in {"", "None"}

\* The consumer has handled the item of a pair whose path was gone.
C4_Witness ==
    /\ citem.tag.w # 0
    /\ ~citem.tag.existed
    /\ cpc = "idle"
    /\ last.item = NoItem
    /\ last.result = "None"

\* C5: every item passed to send() is received by the consumer exactly
\* once: per watcher, what was received is what was sent, in that order.
C5_ExactlyOnce == \A w \in Watchers : recvLog[w] = sentLog[w]

Before(a, b) == a[1] < b[1] \/ (a[1] = b[1] /\ a[2] < b[2])

\* C6: per-watcher ordering.  The items of one watcher reach the consumer
\* in the order of (event delivery, Task declaration): of two items it
\* received from one watcher, the earlier is of an earlier event, or of an
\* earlier Task of the same event.
C6_PerWatcherOrder ==
    \A w \in Watchers :
        \A i, j \in 1..Len(recvLog[w]) :
            i < j => Before(recvLog[w][i], recvLog[w][j])

\* The consumer has received, from one watcher, the items of two Tasks of
\* one event and then an item of a later event.
C6_Witness ==
    \E w \in Watchers :
        \E i, j, k \in 1..Len(recvLog[w]) :
            /\ recvLog[w][i][1] = recvLog[w][j][1]
            /\ recvLog[w][i][2] < recvLog[w][j][2]
            /\ recvLog[w][j][1] < recvLog[w][k][1]

InResolve(t) == {w \in Watchers : pc[w] = "resolve" /\ Inner(w).task = t}

\* C7: Resolver mutual exclusion.  At most one watcher thread is inside
\* resolve() of a Task at any time, and it is the owner of the Task's lock
\* and of the Resolver's lock.
C7_ResolverExclusive ==
    \A t \in TaskIds :
        /\ Cardinality(InResolve(t)) <= 1
        /\ \A w \in InResolve(t) : taskLock[t] = w /\ modLock[t] = w

\* One watcher is inside resolve() of the shared Task while the other one
\* holds a batch with an event the shared Task matches.
C7_Witness ==
    \E w, v \in Watchers :
        /\ w # v
        /\ w \in InResolve("shared")
        /\ pc[v] = "lockbuf"
        /\ \E i \in 1..Len(cur[v].batch) : cur[v].batch[i].kind = "Create"
        /\ \E i \in 1..Len(Rules[v].tasks) : Rules[v].tasks[i].task = "shared"

HoldsLock(w) ==
    \/ bufLock = w
    \/ \E t \in TaskIds : taskLock[t] = w \/ modLock[t] = w

\* C8: lock scope.  A watcher thread that holds the event-buffer lock or a
\* Task/Resolver lock is not blocked in send(), and the consumer is not
\* doing the I/O of a Move meanwhile.
C8_LockScope ==
    \A w \in Watchers :
        HoldsLock(w) =>
            /\ pc[w] # "send"
            /\ ~(cpc = "handling" /\ citem.item.kind = "Move")

Busy == {"event", "task", "parse", "resolve", "send"}

\* C9: error isolation.  A watcher thread has ended only if its own setup
\* returned an error: neither the setup error of another root, nor an error
\* batch, nor a failed rename ends it; no lock is left with a thread that
\* has ended; and a failed rename leaves the consumer running.
C9_ErrorIsolation ==
    /\ \A w \in Watchers : pc[w] = "failed" => setupErr[w] # None
    /\ bufLock # Free => pc[bufLock] \in Busy
    /\ \A t \in TaskIds :
          /\ taskLock[t] # Free => pc[taskLock[t]] \in Busy
          /\ modLock[t] # Free => pc[modLock[t]] \in Busy
    /\ last.result = "err" => cpc # "dead"

\* The setup of one root has failed, and the watcher of the other root,
\* whose event source delivered an error batch, is sending an item of a
\* later batch.
C9_Witness ==
    \E w, v \in Watchers :
        /\ w # v
        /\ pc[w] = "failed"
        /\ erred = v
        /\ pc[v] = "send"

\* C10 as stated: once the watch setup of a root has failed with
\* PathNotFound, start() returns an error.
C10_StartReturnsError ==
    \A w \in Watchers : setupErr[w] = "PathNotFound" => mainpc = "returned Err"

\* C10 amended: start() returns no error.  When the watch setup of a root
\* fails, with PathNotFound or otherwise, its thread reports the error and
\* ends with its ready flag unset, and start() stays in its polling loop.
C10_StartKeepsPolling ==
    \A w \in Watchers :
        setupErr[w] # None => pc[w] = "failed" /\ ~flag[w] /\ mainpc = "poll"

\* The setup of one root failed with PathNotFound while the watcher of the
\* other root is at work.
C10_Witness ==
    \E w, v \in Watchers :
        /\ w # v
        /\ setupErr[w] = "PathNotFound"
        /\ pc[v] = "send"

\* What handle_move_task is about to do with the Move the consumer holds.
Outcome == handle_move_task(fs, citem.item.src, citem.item.dest, now)

AboutToMove == cpc = "handling" /\ citem.item.kind = "Move"

\* C11 as stated: when the rename of a Move{src, dest} fails, the source
\* file is still present at src.
C11_SourceStillPresent ==
    AboutToMove => (Outcome.result = "err" => exists(Outcome.fs, citem.item.src))

\* C11 amended: when the rename of a Move{src, dest} fails, the report is an
\* Err that names src; what was at src, if anything, is there unchanged, and
\* so is every other entry: at most the parent directory of the final
\* destination is new.  The item is received once, so the move is not tried
\* again, and the consumer is ready for the next item.
C11_FailedMoveReported ==
    /\ AboutToMove =>
          (Outcome.result = "err" =>
              /\ Outcome.says = citem.item.src
              /\ \A p \in DOMAIN fs : exists(Outcome.fs, p) /\ Outcome.fs[p] = fs[p]
              /\ DOMAIN Outcome.fs \ DOMAIN fs \subseteq {pop(Outcome.final)})
    /\ last.result = "err" =>
          /\ last.item.kind = "Move"
          /\ last.says = last.item.src
          /\ cpc # "dead"
    /\ \A w \in Watchers : NoDuplicates(recvLog[w])

\* The rename of a Move whose source was gone by then has failed, and the
\* consumer, having received two items of one watcher, waits for the next.
C11_Witness ==
    /\ last.result = "err"
    /\ last.item.kind = "Move"
    /\ ~exists(fs, last.item.src)
    /\ cpc = "idle"
    /\ \E w \in Watchers : Len(recvLog[w]) >= 2

\* The destination Task::parse computed for an item: the default one, or
\* the one of the Resolver's Move; none when the Resolver ended parse.
Computed(tag) ==
    IF ~Tasks[tag.task].inner \/ tag.verdict.kind = "Continue"
    THEN DefaultMove(tag).dest
    ELSE IF tag.verdict.kind = "Move" THEN tag.verdict.dest ELSE NoPath

\* C12: self-move suppression.  No Move{src, dest} with dest = src is ever
\* passed to send(); when the destination computed for a matched event, by
\* default or by the Resolver's Move{dest}, equals the event's path, the
\* item is QueueTask::None; and the executor changes nothing on disk for an
\* item that is no Move.
C12_SelfMoveSuppressed ==
    /\ \A x \in InPipeline :
          /\ x.item.kind = "Move" => x.item.src # x.item.dest
          /\ (~SkipCase(x.tag) /\ Computed(x.tag) = x.tag.path) => x.item = NoItem
    /\ last.item.kind # "Move" => ~last.changed

\* The Resolver answered Move{dest} with the source path itself, and the
\* consumer has handled the item that came of it.
C12_Witness ==
    /\ citem.tag.verdict.kind = "Move"
    /\ citem.tag.verdict.dest = citem.tag.path
    /\ citem.tag.existed
    /\ cpc = "idle"
    /\ last.item = NoItem
    /\ ~last.changed

\* C13: entity-kind filtering.  Every item a files-only Task puts on the
\* queue is of an event whose path the entity-kind match saw as a regular
\* file, and every item of a dirs-only Task is of a path it saw as a
\* directory.
C13_EntityKindFilter ==
    \A x \in InPipeline :
        /\ Tasks[x.tag.task].watched_types = "Files" => x.tag.kind = "file"
        /\ Tasks[x.tag.task].watched_types = "Dirs" => x.tag.kind = "dir"

\* A watcher is sending the item of the dirs-only Task for a directory for
\* which it sent nothing on behalf of the files-only Task declared first.
C13_Witness ==
    \E w \in Watchers :
        /\ pc[w] = "send"
        /\ cur[w].tag.task = "dirs"
        /\ cur[w].tag.kind = "dir"
        /\ Tasks[Rules[w].tasks[1].task].watched_types = "Files"
        /\ \A i \in 1..Len(sentLog[w]) : sentLog[w][i] # << cur[w].tag.ord[1], 1 >>

Terminal == {"Path", "Info", "Ok", "Err", "None"}

\* C17: Resolver verdict mapping.  For an item whose Resolver answered
\* Path, Info, Ok, Err or None the item is that report and no Move, and the
\* executor leaves the filesystem as it is; for Continue it is the Move to
\* the default destination; for Move{dest} it is the Move to the Resolver's
\* dest (none at all when that is the source itself).
C17_VerdictMapping ==
    /\ \A x \in InPipeline :
          LET v == x.tag.verdict
          IN  /\ v.kind \in Terminal => x.item.kind = v.kind
              /\ v.kind = "Continue" => x.item = DefaultMove(x.tag)
              /\ v.kind = "Move" =>
                    x.item = IF v.dest = x.tag.path THEN NoItem
                             ELSE QItem("Move", x.tag.path, v.dest, "")
    /\ (last.result # "" /\ last.item.kind \in Terminal) =>
          /\ ~last.changed
          /\ last.result = IF last.item.kind = "None" THEN "None" ELSE "Text"

\* The executor has carried out a Move to the destination the Resolver
\* named, which is not the default one.
C17_Witness ==
    /\ citem.tag.verdict.kind = "Move"
    /\ citem.tag.verdict.dest # DefaultMove(citem.tag).dest
    /\ citem.item = QItem("Move", citem.tag.path, citem.tag.verdict.dest, "")
    /\ cpc = "idle"
    /\ last.result = "ok"
    /\ last.final = citem.tag.verdict.dest

\* C20: before the rename the parent directory of the final destination
\* exists, also when neither it nor its own parent was there: whenever the
\* executor gets as far as the rename, the parent is a directory afterwards.
C20_ParentCreatedRecursively ==
    AboutToMove =>
        (Outcome.result # "panic" => is_dir(Outcome.fs, pop(Outcome.final)))

\* C14: once Watch::new has returned, the configured dump folder exists.
C14_DumpFolderExists ==
    conf.pc \in {"building", "started"} => is_dir(fs, DumpFolder)

\* Every InnerTask stored for a Task with a destination, with its root.
Stored ==
    UNION { { [root |-> conf.rules[i].watched_path,
               spec |-> Candidates[conf.rules[i].tasks[j].task].destination[1],
               dest |-> conf.rules[i].tasks[j].dest] :
                 j \in { k \in 1..Len(conf.rules[i].tasks) :
                           /\ conf.rules[i].tasks[k].task \in DOMAIN Candidates
                           /\ Candidates[conf.rules[i].tasks[k].task].destination # << >> } } :
            i \in 1..Len(conf.rules) }

Ups(s) == Cardinality({i \in 1..Len(s.marks) : s.marks[i] = DIR_UP})

Min(a, b) == IF a < b THEN a ELSE b

\* Component arithmetic: the root less its last min(k, d) components, then
\* the remainder.
Manual(root, s) ==
    [abs |-> root.abs,
     comps |-> SubSeq(root.comps, 1,
                      Len(root.comps) - Min(Ups(s), Len(root.comps))) \o s.rest]

\* C15 as stated: strip(root, spec) is the root with min(k, d) trailing
\* components removed and the remainder appended, and it is never the empty
\* path.
C15_StripNeverEmpty ==
    \A x \in Stored : x.dest = Manual(x.root, x.spec) /\ x.dest # Rel(<< >>)

\* The arithmetic alone: strip(root, spec) is the root with min(k, d)
\* trailing components removed and the remainder appended; an absolute
\* root gives an absolute result.
StripArithmetic ==
    \A x \in Stored :
        /\ x.dest = Manual(x.root, x.spec)
        /\ x.root.abs => x.dest.abs

\* C16: a Task without event predicate is never stored: every Task held by
\* a Ruleset has one, and an add of a Task without one ends the
\* configuration in a panic, so that start() is never reached with it.
C16_PredicateRequired ==
    /\ \A i \in 1..Len(conf.rules) : \A j \in 1..Len(conf.rules[i].tasks) :
          /\ conf.rules[i].tasks[j].task \in DOMAIN Candidates
          /\ Candidates[conf.rules[i].tasks[j].task].event_check # None
    /\ conf.panic = "event_check" => conf.pc = "panicked"

\* A Ruleset that already held a Task was handed one without event
\* predicate: the configuration panicked and the Ruleset holds what it held.
C16_Witness ==
    /\ conf.pc = "panicked"
    /\ conf.panic = "event_check"
    /\ conf.added >= 1
    /\ conf.rules # << >>
    /\ Len(conf.rules[Len(conf.rules)].tasks) = 1

\* C18: the Recent-Event Buffer never holds more than BufferCapacity
\* entries, whatever pushes and lookups were made; a push onto a full buffer
\* leaves it full, with the pushed entry last and before it the former
\* entries but the oldest, in their order; a push onto a buffer with room
\* only appends.
C18_BoundedEviction ==
    /\ Len(buffer) <= BufferCapacity
    /\ (bop.op = "push" /\ Len(bop.before) = BufferCapacity) =>
          /\ Len(buffer) = BufferCapacity
          /\ buffer[BufferCapacity] = bop.item[1]
          /\ \A i \in 1..(BufferCapacity - 1) : buffer[i] = bop.before[i + 1]
    /\ (bop.op = "push" /\ Len(bop.before) < BufferCapacity) =>
          /\ Len(buffer) = Len(bop.before) + 1
          /\ buffer[Len(buffer)] = bop.item[1]
          /\ \A i \in 1..Len(bop.before) : buffer[i] = bop.before[i]

\* A push found the buffer full, its oldest entry unlike the next one.
C18_Witness ==
    /\ bop.op = "push"
    /\ Len(bop.before) = BufferCapacity
    /\ bop.before[1] # bop.before[2]
    /\ Len(buffer) = BufferCapacity

\* The watcher is inside the for_each closure of one event: past the
\* lookup, before the push.
InEvent(w) == pc[w] \in {"task", "parse", "resolve", "send"}

\* C19: one-shot lookup of the previous kind.  While an event with stem s
\* is processed, the buffer holds no entry for s (the lookup removed it and
\* the push comes after the last Task), and the previous kind handed to the
\* Task predicates is the kind of the latest earlier event with stem s, or
\* None when there was none; no two buffered entries have the same stem, so
\* that no entry is returned by two lookups.
C19_OneShotPrevious ==
    /\ \A w \in Watchers : InEvent(w) =>
          /\ position(buffer, file_stem(Event(w).path)) = 0
          /\ cur[w].prev = seen[file_stem(Event(w).path)]
    /\ \A i, j \in 1..Len(buffer) : buffer[i].key = buffer[j].key => i = j
    /\ \A i \in 1..Len(buffer) : buffer[i].kind = seen[buffer[i].key]

\* A Task predicate is about to be evaluated for the second event of a
\* stem: the kind of the first was taken out of the buffer for it.
C19_Witness ==
    \E w \in Watchers :
        /\ pc[w] = "task"
        /\ cur[w].ti <= Len(Rules[w].tasks)
        /\ cur[w].prev # None
        /\ cur[w].prev = seen[file_stem(Event(w).path)]
        /\ position(buffer, file_stem(Event(w).path)) = 0

\* A step of a watcher thread or of the consumer.
ThreadStep ==
    \/ Handle
    \/ \E w \in Watchers :
          \/ RecvBatch(w) \/ LockBuffer(w) \/ EndBatch(w) \/ BeginEvent(w)
          \/ EndEvent(w) \/ SkipTask(w) \/ MatchTask(w) \/ Parse(w)
          \/ Resolve(w) \/ Send(w) \/ SendDisconnected(w)

\* The watcher has a batch to work off: it waits for the buffer lock, or
\* is inside the batch, where it takes the Task's and the Resolver's lock
\* and sends.
AtWork(w) == pc[w] = "lockbuf" \/ pc[w] \in Busy

\* No watcher at work waits for a watcher that is itself waiting: whenever
\* a watcher is at work, a watcher or the consumer can take a step.
NoDeadlock == (\E w \in Watchers : AtWork(w)) => ENABLED ThreadStep

\* A watcher in send(), with whatever locks it holds, leaves send().
SendReturns == \A w \in Watchers : (pc[w] = "send") ~> (pc[w] # "send")

\* C21: deadlock freedom of the pipeline.  In every reachable state in
\* which a watcher waits for a lock or for the consumer, some thread can
\* take a step; and a watcher blocked in send() while holding the buffer
\* lock and the Task's lock is always released in the end, by the consumer
\* taking the item or by the channel disconnecting.
C21_DeadlockFree == []NoDeadlock /\ SendReturns

\* A watcher is blocked in send(), holding the buffer lock and the lock of
\* its Task, while the consumer is busy with the Move sent before and the
\* other watcher waits for the buffer lock.
C21_Witness ==
    \E w, v \in Watchers :
        /\ pc[w] = "send"
        /\ bufLock = w
        /\ taskLock[Inner(w).task] = w
        /\ cpc = "handling"
        /\ ~ENABLED Send(w)
        /\ pc[v] = "lockbuf"


\* The consumer holds the Move of a later Task of an event whose earlier
\* Task's Move of the same source it has just carried out: the item taken
\* before this one came from the same watcher for the same event, and the
\* source has left its place.
SecondMove ==
    /\ cpc = "handling"
    /\ citem.item.kind = "Move"
    /\ last.item.kind = "Move"
    /\ last.item.src = citem.item.src
    /\ last.result = "ok"
    /\ ~exists(fs, citem.item.src)
    /\ LET log == recvLog[citem.tag.w]
       IN  /\ Len(log) >= 2
           /\ log[Len(log) - 1][1] = citem.tag.ord[1]
           /\ log[Len(log) - 1][2] < citem.tag.ord[2]

\* C22: two Tasks of one Ruleset match the same event and each would move
\* the same source.  Once the consumer has renamed the source for the
\* first-declared Task, its turn for the second Task's Move ends in one Err
\* report: nothing is relocated again, and the file stays where the first
\* Move put it.
C22_SecondMoveFails ==
    [][ (SecondMove /\ cpc' # "handling")
            => /\ last'.result = "err"
               /\ exists(fs', last.final)
               /\ fs'[last.final] = fs[last.final] ]_vars
=============================================================================
